---- MODULE Spec2Model ----
(***************************************************************************)
(* Model of the two utilities of ObjectionClassficationUI:                 *)
(*   - COCOAnnotator (the review tool): cursor, check boxes, the           *)
(*     classification map, import / export of the progress file;           *)
(*   - voc_to_coco (the VOC -> COCO converter).                            *)
(* Strings are sequences of one-character strings, so that strip(),        *)
(* split(':'), line iteration and formatting are computed, not assumed.    *)
(***************************************************************************)
EXTENDS Integers, Sequences, FiniteSets, TLC

VARIABLES
    image_info,        \* annotator: file_name of each image record, in order
    current_index,     \* annotator: the cursor
    classifications,   \* annotator: insertion-ordered dict, seq of <<name, label>>
    sparse_check,      \* annotator: state of the SPARSE check box
    dense_check,       \* annotator: state of the DENSE check box
    last_op,           \* annotator: the handler that ran last (history)
    import_file,       \* annotator: the file the last import was given (history)
    disk,              \* round trip: content of the exported progress file
    restored,          \* round trip: the map of the session that imports it
    voc,               \* converter: the input tree (index files, jpg, xml)
    pc,                \* converter: position in voc_to_coco
    set_name,          \* converter: the split being converted
    image_ids,         \* converter: lines of the split's index file
    images,            \* converter: image records of the split
    annotations,       \* converter: annotation records of the split
    categories,        \* converter: category records of the split
    category_names,    \* converter: set of class names seen in the split
    out_dirs,          \* converter: output directories created so far
    copied,            \* converter: <<split, file_name>> of every copied image
    json_out           \* converter: the JSON document written per split

uiVars   == <<image_info, current_index, classifications, sparse_check,
              dense_check, last_op, import_file>>
rtVars   == <<disk, restored>>
convVars == <<voc, pc, set_name, image_ids, images, annotations, categories,
              category_names, out_dirs, copied, json_out>>
vars     == <<uiVars, rtVars, convVars>>

Max(a, b) == IF a >= b THEN a ELSE b
Min(a, b) == IF a <= b THEN a ELSE b

(***************************************************************************)
(* Bounds of the model.                                                    *)
(***************************************************************************)
MaxN       == 2   \* image records loaded by the annotator
MaxEntries == 2   \* entries of the map that is exported and re-imported
MaxIds     == 2   \* lines of the train index file

(***************************************************************************)
(* Characters and strings.                                                 *)
(***************************************************************************)
NL  == "\n"
CR  == "\r"
SP  == " "
COLON == ":"
BAD == "?bad-byte?"       \* a byte sequence that is not valid UTF-8

\* The two labels, "稀疏" and "密集": two characters each.
SPARSE == <<"X", "S">>
DENSE  == <<"M", "J">>

\* str.strip() removes leading and trailing whitespace.
IsSpace(c) == c \in {SP, NL, CR}

RECURSIVE LStrip(_)
LStrip(s) == IF s # <<>> /\ IsSpace(Head(s)) THEN LStrip(Tail(s)) ELSE s

RECURSIVE RStrip(_)
RStrip(s) ==
    IF s # <<>> /\ IsSpace(s[Len(s)]) THEN RStrip(SubSeq(s, 1, Len(s) - 1)) ELSE s

Strip(s) == RStrip(LStrip(s))

Contains(s, c) == \E i \in 1..Len(s) : s[i] = c

\* str.split(sep): every piece between separators, n separators give n+1 pieces.
RECURSIVE SplitAll(_, _)
SplitAll(s, sep) ==
    IF ~Contains(s, sep) THEN <<s>>
    ELSE LET i == CHOOSE k \in 1..Len(s) :
                      s[k] = sep /\ \A j \in 1..(k - 1) : s[j] # sep
         IN  <<SubSeq(s, 1, i - 1)>> \o SplitAll(SubSeq(s, i + 1, Len(s)), sep)

\* Text-mode read (newline=None): "\r\n" and "\r" are translated to "\n".
RECURSIVE UniversalNewlines(_)
UniversalNewlines(s) ==
    IF s = <<>> THEN <<>>
    ELSE IF Head(s) = CR
         THEN IF Len(s) >= 2 /\ s[2] = NL
              THEN <<NL>> \o UniversalNewlines(SubSeq(s, 3, Len(s)))
              ELSE <<NL>> \o UniversalNewlines(Tail(s))
         ELSE <<Head(s)>> \o UniversalNewlines(Tail(s))

\* "for line in f": the lines of the text, each with its terminating "\n".
RECURSIVE FileLines(_)
FileLines(s) ==
    IF s = <<>> THEN <<>>
    ELSE IF ~Contains(s, NL) THEN <<s>>
    ELSE LET i == CHOOSE k \in 1..Len(s) :
                      s[k] = NL /\ \A j \in 1..(k - 1) : s[j] # NL
         IN  <<SubSeq(s, 1, i)>> \o FileLines(SubSeq(s, i + 1, Len(s)))

(***************************************************************************)
(* The classification map: a Python dict, which keeps insertion order.     *)
(***************************************************************************)
DictKeys(d) == {d[i][1] : i \in 1..Len(d)}
DictHas(d, k) == k \in DictKeys(d)
DictGet(d, k) == d[CHOOSE i \in 1..Len(d) : d[i][1] = k][2]
DictValues(d) == {d[i][2] : i \in 1..Len(d)}

\* d[k] = v: an existing key keeps its place, a new key goes last.
DictSet(d, k, v) ==
    IF DictHas(d, k)
    THEN [i \in 1..Len(d) |-> IF d[i][1] = k THEN <<k, v>> ELSE d[i]]
    ELSE Append(d, <<k, v>>)

\* del d[k]
DictDel(d, k) == SelectSeq(d, LAMBDA e : e[1] # k)

\* Python's dict equality: same keys, same value per key, order ignored.
DictEq(d, e) ==
    /\ DictKeys(d) = DictKeys(e)
    /\ \A k \in DictKeys(d) : DictGet(d, k) = DictGet(e, k)

(***************************************************************************)
(* Progress Store: export_results and import_progress on file contents.    *)
(***************************************************************************)
\* A file on disk: absent, or a sequence of characters (bytes).
NoFile == [exists |-> FALSE, bytes |-> <<>>]
FileOf(bytes) == [exists |-> TRUE, bytes |-> bytes]

\* Mutant of ExportText: the line terminator is left out.
RECURSIVE ExportTextNoNewline(_)
ExportTextNoNewline(d) ==
    IF d = <<>> THEN <<>>
    ELSE Head(d)[1] \o <<COLON, SP>> \o Head(d)[2] \o ExportTextNoNewline(Tail(d))

\* f.write(f"{image_name}: {classification}\n") for every item, in dict order.
RECURSIVE ExportText(_)
ExportText(d) ==
    IF d = <<>> THEN <<>>
    ELSE Head(d)[1] \o <<COLON, SP>> \o Head(d)[2] \o <<NL>> \o ExportText(Tail(d))

\* line.strip().split(':')
SplitLine(line) == SplitAll(Strip(line), COLON)

\* The body of "for line in f": a line with ':' is split and unpacked into
\* exactly two names (anything else raises ValueError, which ends the loop
\* with the entries merged so far kept); a line without ':' is passed over.
RECURSIVE MergeLines(_, _)
MergeLines(lines, d) ==
    IF lines = <<>> THEN [map |-> d, ok |-> TRUE]
    ELSE IF Contains(Head(lines), COLON)
         THEN LET parts == SplitLine(Head(lines))
              IN  IF Len(parts) # 2
                  THEN [map |-> d, ok |-> FALSE]
                  ELSE MergeLines(Tail(lines),
                                  DictSet(d, Strip(parts[1]), Strip(parts[2])))
         ELSE MergeLines(Tail(lines), d)

\* The try block of import_progress up to the end of the loop: open() fails on
\* a missing file; the modelled files are shorter than one read chunk, so
\* undecodable bytes raise on the first read, before any line is merged.
ImportFile(d, file) ==
    IF ~file.exists THEN [map |-> d, ok |-> FALSE]
    ELSE IF Contains(file.bytes, BAD) THEN [map |-> d, ok |-> FALSE]
    ELSE MergeLines(FileLines(UniversalNewlines(file.bytes)), d)

(***************************************************************************)
(* The check boxes. QCheckBox.setChecked emits stateChanged only when the  *)
(* state changes; both boxes are connected to single_check.                *)
(***************************************************************************)
OtherBox(box) == IF box = "sparse" THEN "dense" ELSE "sparse"

RECURSIVE SetChecked(_, _, _)
RECURSIVE single_check(_, _)

\* Mutant of single_check: the handler does nothing.
single_check_ignored(cb, box) == cb

single_check(cb, box) ==
    IF cb[box] THEN SetChecked(cb, OtherBox(box), FALSE) ELSE cb

SetChecked(cb, box, v) ==
    IF cb[box] = v THEN cb
    ELSE single_check([cb EXCEPT ![box] = v], box)

Boxes == [sparse |-> sparse_check, dense |-> dense_check]

(***************************************************************************)
(* Review Navigator: the handlers of COCOAnnotator as functions of the     *)
(* annotator's state st = [idx, map, cb]; image_info never changes.        *)
(***************************************************************************)
N == Len(image_info)

UiState == [idx |-> current_index, map |-> classifications, cb |-> Boxes]

\* show_image: returns early when the index is out of range or when
\* cv2.imread gives None (loadable = FALSE); otherwise ticks the saved label.
show_image(st, loadable) ==
    IF st.idx < 0 \/ st.idx >= N THEN st
    ELSE IF ~loadable THEN st
    ELSE LET file_name == image_info[st.idx + 1]
             saved == DictHas(st.map, file_name)
             cls == IF saved THEN DictGet(st.map, file_name) ELSE <<>>
             cb1 == SetChecked(st.cb, "sparse", saved /\ cls = SPARSE)
             cb2 == SetChecked(cb1, "dense", saved /\ cls = DENSE)
         IN  [st EXCEPT !.cb = cb2]

\* show_prev_image, line 275.
PrevIndex(i) == Max(0, i - 1)
\* Mutant of NextIndex: the cursor wraps around at the last index.
NextIndexWraps(i, n) == IF i + 1 >= n THEN 0 ELSE i + 1

\* show_next_image, line 280.
NextIndex(i, n) == Min(n - 1, i + 1)

show_prev_image(st, loadable) ==
    show_image([st EXCEPT !.idx = PrevIndex(st.idx)], loadable)

show_next_image(st, loadable) ==
    show_image([st EXCEPT !.idx = NextIndex(st.idx, N)], loadable)

\* image_info[current_index] raises IndexError exactly when the list is empty
\* (the index is 0 or -1 then; -1 is a valid index of a non-empty list).
SaveRaises == N = 0

\* save_classification, for a non-empty list.
save_classification(st) ==
    LET file_name == image_info[IF st.idx < 0 THEN N + st.idx + 1 ELSE st.idx + 1]
    IN  IF st.cb.sparse THEN [st EXCEPT !.map = DictSet(st.map, file_name, SPARSE)]
        ELSE IF st.cb.dense THEN [st EXCEPT !.map = DictSet(st.map, file_name, DENSE)]
        ELSE [st EXCEPT !.map = DictDel(st.map, file_name)]

\* quick_classify: sets the two boxes, then saves; an IndexError raised by the
\* save leaves the boxes as set.
quick_classify(st, classification) ==
    LET cb1 == IF classification = SPARSE
               THEN SetChecked(SetChecked(st.cb, "sparse", TRUE), "dense", FALSE)
               ELSE SetChecked(SetChecked(st.cb, "sparse", FALSE), "dense", TRUE)
        st1 == [st EXCEPT !.cb = cb1]
    IN  IF SaveRaises THEN st1 ELSE save_classification(st1)

\* save_and_next: an IndexError raised by the save skips the advance.
save_and_next(st, loadable) ==
    IF SaveRaises THEN st ELSE show_next_image(save_classification(st), loadable)

\* import_progress with a chosen file: the merge, then (only when nothing was
\* raised) the refresh of the display.
import_progress(st, file, loadable) ==
    LET r == ImportFile(st.map, file)
        st1 == [st EXCEPT !.map = r.map]
    IN  IF r.ok THEN show_image(st1, loadable) ELSE st1

(***************************************************************************)
(* Inputs of the annotator.                                                *)
(***************************************************************************)
NameA == <<"a">>
NameB == <<"b">>
FileNames == {NameA, NameB}

\* Every list of at most n file names.
RECURSIVE SeqsUpTo(_, _)
SeqsUpTo(S, n) ==
    IF n = 0 THEN {<<>>}
    ELSE LET shorter == SeqsUpTo(S, n - 1)
         IN  shorter \cup {Append(q, x) : q \in shorter, x \in S}

\* Progress files the user may pick in the import dialog.
TextSparseA   == <<"a", COLON, SP, "X", "S", NL>>                \* a: SPARSE
TextDenseB    == <<"b", COLON, "M", "J">>                        \* b:DENSE, no newline
TextJunkLine  == <<"j", "k", NL, SP, "a", SP, COLON, "M", "J", CR, NL>>
TextOddLabel  == <<"b", COLON, SP, "z", NL>>                     \* b: z
TextTwoColons == <<"a", COLON, "M", "J", NL,
                   "b", COLON, "c", COLON, "d", NL,
                   "b", COLON, "X", "S", NL>>
TextBadBytes  == <<"a", COLON, "X", "S", NL, BAD>>

ImportFiles ==
    {FileOf(TextSparseA), FileOf(TextDenseB), FileOf(TextJunkLine),
     FileOf(TextOddLabel), FileOf(TextTwoColons), FileOf(TextBadBytes), NoFile}

(***************************************************************************)
(* The annotator as a state machine: one action per handler.               *)
(***************************************************************************)
RtIdle ==
    /\ disk = NoFile
    /\ restored = <<>>

ConvIdle ==
    /\ voc = [index |-> [s \in {"train", "val"} |->
                             [exists |-> FALSE, lines |-> <<>>]],
              jpg |-> {}, xml |-> {}]
    /\ pc = "idle"
    /\ set_name = "train"
    /\ image_ids = <<>>
    /\ images = <<>>
    /\ annotations = <<>>
    /\ categories = <<>>
    /\ category_names = {}
    /\ out_dirs = {}
    /\ copied = {}
    /\ json_out = <<>>

\* __init__: the records are loaded, the map is empty, both boxes are clear
\* and the first image is shown (which ticks nothing, the map being empty).
Init ==
    /\ image_info \in SeqsUpTo(FileNames, MaxN)
    /\ current_index = 0
    /\ classifications = <<>>
    /\ sparse_check = FALSE
    /\ dense_check = FALSE
    /\ last_op = "init"
    /\ import_file = NoFile
    /\ RtIdle
    /\ ConvIdle

Becomes(st) ==
    /\ current_index' = st.idx
    /\ classifications' = st.map
    /\ sparse_check' = st.cb.sparse
    /\ dense_check' = st.cb.dense
    /\ UNCHANGED <<image_info, rtVars, convVars>>

\* The user clicks a check box: it toggles and emits stateChanged.
ToggleSparse ==
    /\ Becomes([UiState EXCEPT !.cb = SetChecked(Boxes, "sparse", ~sparse_check)])
    /\ last_op' = "toggle_sparse"
    /\ import_file' = NoFile

ToggleDense ==
    /\ Becomes([UiState EXCEPT !.cb = SetChecked(Boxes, "dense", ~dense_check)])
    /\ last_op' = "toggle_dense"
    /\ import_file' = NoFile

\* Key 1 and key 2.
QuickSparse ==
    /\ Becomes(quick_classify(UiState, SPARSE))
    /\ last_op' = "quick_sparse"
    /\ import_file' = NoFile

QuickDense ==
    /\ Becomes(quick_classify(UiState, DENSE))
    /\ last_op' = "quick_dense"
    /\ import_file' = NoFile

\* Space, or the save button.
SaveAndNext ==
    /\ \E loadable \in BOOLEAN : Becomes(save_and_next(UiState, loadable))
    /\ last_op' = "save_and_next"
    /\ import_file' = NoFile

\* Right arrow, or the next button.
ShowNext ==
    /\ \E loadable \in BOOLEAN : Becomes(show_next_image(UiState, loadable))
    /\ last_op' = "next"
    /\ import_file' = NoFile

\* Left arrow, or the previous button.
ShowPrev ==
    /\ \E loadable \in BOOLEAN : Becomes(show_prev_image(UiState, loadable))
    /\ last_op' = "prev"
    /\ import_file' = NoFile

\* The import button, with a file chosen in the dialog.
ImportProgress ==
    \E file \in ImportFiles :
        /\ \E loadable \in BOOLEAN :
               Becomes(import_progress(UiState, file, loadable))
        /\ last_op' = IF ImportFile(classifications, file).ok
                      THEN "import" ELSE "import_failed"
        /\ import_file' = file

\* The import button, with the dialog cancelled: nothing is read.
ImportCancelled ==
    /\ Becomes(UiState)
    /\ last_op' = "import_cancelled"
    /\ import_file' = NoFile

Next ==
    \/ ToggleSparse
    \/ ToggleDense
    \/ QuickSparse
    \/ QuickDense
    \/ SaveAndNext
    \/ ShowNext
    \/ ShowPrev
    \/ ImportProgress
    \/ ImportCancelled

Spec == Init /\ [][Next]_vars

(***************************************************************************)
(* Claims about the annotator (checked under Spec).                        *)
(***************************************************************************)
\* k-fold retreat and k-fold advance from a state.
RECURSIVE Retreats(_, _, _)
Retreats(st, k, loadable) ==
    IF k = 0 THEN st ELSE Retreats(show_prev_image(st, loadable), k - 1, loadable)

RECURSIVE Advances(_, _, _)
Advances(st, k, loadable) ==
    IF k = 0 THEN st ELSE Advances(show_next_image(st, loadable), k - 1, loadable)

InRange(i) == i \in 0..(N - 1)

C1_Step ==
    N >= 1 =>
        /\ InRange(current_index')
        /\ (last_op' = "next" /\ current_index = N - 1) => current_index' = N - 1
        /\ (last_op' = "next" /\ current_index < N - 1)
               => current_index' = current_index + 1
        /\ (last_op' = "prev" /\ current_index = 0) => current_index' = 0
        /\ (last_op' = "prev" /\ current_index > 0)
               => current_index' = current_index - 1
        /\ \A loadable \in BOOLEAN :
               LET atEnd == [UiState EXCEPT !.idx = N - 1]
               IN  /\ Retreats(atEnd, N, loadable).idx = 0
                   /\ Advances(Retreats(atEnd, N, loadable), N, loadable).idx = N - 1

\* C1: with N >= 1 records the cursor stays within [0, N-1] under every
\* handler; advance at the last index and retreat at index 0 leave it where
\* it is, elsewhere they move it by one; N retreats from the last index
\* followed by N advances end at the last index.
C1_CursorClamped == (N >= 1 => InRange(current_index)) /\ [][C1_Step]_vars

\* An advance was attempted at the last index of a one-record list.
C1_Witness == N = 1 /\ last_op = "next" /\ current_index = 0

CurrentFile == image_info[current_index + 1]

\* C2: the two boxes are never both ticked; after quick_classify(DENSE) the
\* DENSE box alone is ticked and the current record's entry is DENSE (also
\* right after quick_classify(SPARSE)), and symmetrically for SPARSE; a box
\* the user has just ticked is the only one ticked.
C2_MutuallyExclusive ==
    /\ ~(sparse_check /\ dense_check)
    /\ last_op = "quick_dense" =>
           /\ dense_check /\ ~sparse_check
           /\ N >= 1 => DictGet(classifications, CurrentFile) = DENSE
    /\ last_op = "quick_sparse" =>
           /\ sparse_check /\ ~dense_check
           /\ N >= 1 => DictGet(classifications, CurrentFile) = SPARSE
    /\ (last_op = "toggle_sparse" /\ sparse_check) => ~dense_check
    /\ (last_op = "toggle_dense" /\ dense_check) => ~sparse_check

\* quick_classify(DENSE) has just run on a record.
C2_Witness ==
    /\ N >= 1
    /\ last_op = "quick_dense"
    /\ dense_check
    /\ DictHas(classifications, CurrentFile)

\* C4 (as claimed): an import that takes its error path leaves the map as it
\* was before the import.
C4_FailedImportKeepsMap ==
    [][last_op' = "import_failed" => classifications' = classifications]_vars

\* Import as the claim describes it: a line without ':' is skipped, any other
\* line is cut at its first ':' and merged, trimmed, whatever follows.
RECURSIVE ClaimedMerge(_, _)
ClaimedMerge(lines, d) ==
    IF lines = <<>> THEN d
    ELSE IF Contains(Head(lines), COLON)
         THEN LET line == Head(lines)
                  i == CHOOSE k \in 1..Len(line) :
                           line[k] = COLON /\ \A j \in 1..(k - 1) : line[j] # COLON
              IN  ClaimedMerge(Tail(lines),
                               DictSet(d, Strip(SubSeq(line, 1, i - 1)),
                                          Strip(SubSeq(line, i + 1, Len(line)))))
         ELSE ClaimedMerge(Tail(lines), d)

Readable(file) == file.exists /\ ~Contains(file.bytes, BAD)

\* C8 (as claimed): the import of a readable file merges every line that has
\* a ':' at its first ':', skips the others, and no line stops the lines
\* after it from being merged.
C8_LinesMergedIndependently ==
    [][(last_op' \in {"import", "import_failed"} /\ Readable(import_file'))
          => classifications' =
                 ClaimedMerge(FileLines(UniversalNewlines(import_file'.bytes)),
                              classifications)]_vars

\* C9 (as claimed): every value stored in the map is SPARSE or DENSE.
C9_OnlyTwoLabels == DictValues(classifications) \subseteq {SPARSE, DENSE}

Unset == <<>>
Selection ==
    IF sparse_check THEN SPARSE ELSE IF dense_check THEN DENSE ELSE Unset
EntryOf(d, name) == IF DictHas(d, name) THEN DictGet(d, name) ELSE Unset

\* C10 (as claimed): after advance, retreat or import the selection is the map
\* entry of the record at the cursor; and a save_and_next issued right after,
\* with the selection untouched, keeps the entry of the record it saves.
C10_SelectionFollowsMap ==
    [][N >= 1 =>
          /\ last_op' \in {"next", "prev", "import"}
                 => (Selection = EntryOf(classifications, CurrentFile))'
          /\ (last_op \in {"next", "prev", "import"} /\ last_op' = "save_and_next")
                 => EntryOf(classifications', CurrentFile)
                        = EntryOf(classifications, CurrentFile)]_vars

(***************************************************************************)
(* Export followed by import in a fresh session (SpecRoundTrip).           *)
(***************************************************************************)
\* File names of image records, as the annotation document may give them.
RoundTripNames ==
    {NameA, NameB, <<"a", SP, "b">>, <<>>,
     <<SP, "a">>, <<"a", SP>>,
     <<"a", COLON, "b">>, <<"a", NL, "b">>, <<"a", CR, "b">>}

\* Labels the map can hold: the two labels, or a trimmed string an earlier
\* import stored.
RoundTripLabels == {SPARSE, DENSE, <<"z">>, <<>>}

\* Every dict of at most n entries.
RECURSIVE DictsUpTo(_, _, _)
DictsUpTo(K, V, n) ==
    IF n = 0 THEN {<<>>}
    ELSE LET smaller == DictsUpTo(K, V, n - 1)
         IN  smaller \cup
             {Append(d, <<k, v>>) : d \in smaller, k \in K, v \in V}

InitRoundTrip ==
    /\ image_info = <<>>
    /\ current_index = 0
    /\ classifications \in
           {d \in DictsUpTo(RoundTripNames, RoundTripLabels, MaxEntries) :
                Cardinality(DictKeys(d)) = Len(d)}
    /\ sparse_check = FALSE
    /\ dense_check = FALSE
    /\ last_op = "init"
    /\ import_file = NoFile
    /\ RtIdle
    /\ ConvIdle

\* export_results: the file is overwritten with the whole map.
ExportResultsWrites(d) == FileOf(ExportText(d))

ExportResults ==
    /\ disk' = ExportResultsWrites(classifications)
    /\ last_op' = "export"
    /\ UNCHANGED <<image_info, current_index, classifications, sparse_check,
                   dense_check, import_file, restored, convVars>>

\* import_progress of the exported file in a session started afresh
\* (self.classifications = {}).
ImportExported ==
    /\ last_op = "export"
    /\ restored' = ImportFile(<<>>, disk).map
    /\ last_op' = IF ImportFile(<<>>, disk).ok THEN "import" ELSE "import_failed"
    /\ import_file' = disk
    /\ UNCHANGED <<image_info, current_index, classifications, sparse_check,
                   dense_check, disk, convVars>>

NextRoundTrip == ExportResults \/ ImportExported

SpecRoundTrip == InitRoundTrip /\ [][NextRoundTrip]_vars

Imported == last_op \in {"import", "import_failed"}

\* C3 (as claimed): for a map whose file names hold no ':' and no newline,
\* importing its export into an empty map gives the map back.
C3_RoundTripAsClaimed ==
    (/\ Imported
     /\ DictValues(classifications) \subseteq {SPARSE, DENSE}
     /\ \A k \in DictKeys(classifications) : ~Contains(k, COLON) /\ ~Contains(k, NL))
        => DictEq(restored, classifications)

LineSafe(k) ==
    /\ ~Contains(k, COLON)
    /\ ~Contains(k, NL)
    /\ ~Contains(k, CR)
    /\ Strip(k) = k

\* C3 (amended): for a map whose file names hold no ':', no line break
\* ("\n" or "\r") and no leading or trailing whitespace, the import of its
\* export succeeds and gives the map back.
C3_RoundTrip ==
    (Imported /\ \A k \in DictKeys(classifications) : LineSafe(k))
        => last_op = "import" /\ DictEq(restored, classifications)

\* A map of two entries with line-safe names went through export and import.
C3_Witness ==
    /\ Imported
    /\ Len(classifications) >= 2
    /\ \A k \in DictKeys(classifications) : LineSafe(k)
    /\ DictEq(restored, classifications)

(***************************************************************************)
(* voc_to_coco: the input tree.                                            *)
(***************************************************************************)
ImageIds == {"1", "2", "3"}

Tree == <<"t", "r", "e", "e">>
Tre  == <<"t", "r", "e">>
Bush == <<"b", "u", "s", "h">>

XmlObject(name, difficult, xmin, ymin, xmax, ymax) ==
    [name |-> name, difficult |-> difficult,
     bndbox |-> [xmin |-> xmin, ymin |-> ymin, xmax |-> xmax, ymax |-> ymax]]

\* The annotation XML of each image id (when the file exists).
XmlOf(image_id) ==
    CASE image_id = "1" ->
             [width |-> 100, height |-> 80,
              objects |-> <<XmlObject(Tree, 0, 10, 10, 50, 60)>>]
      [] image_id = "2" ->
             [width |-> 64, height |-> 48,
              objects |-> <<XmlObject(Tree, 1, 0, 0, 20, 30),
                            XmlObject(Bush, 0, 5, 6, 9, 8)>>]
      [] OTHER ->
             [width |-> 32, height |-> 32,
              objects |-> <<XmlObject(Tre, 0, 1, 2, 3, 4)>>]

\* An index file: absent, or its lines (one image id per line).
NoIndex == [exists |-> FALSE, lines |-> <<>>]
IndexOf(lines) == [exists |-> TRUE, lines |-> lines]

TrainIndexes == {NoIndex} \cup {IndexOf(q) : q \in SeqsUpTo(ImageIds, MaxIds)}
ValIndexes == {NoIndex, IndexOf(<<>>), IndexOf(<<"3">>), IndexOf(<<"2", "1">>)}

sets == <<"train", "val">>

(***************************************************************************)
(* voc_to_coco: the steps of the loop body, as functions.                  *)
(***************************************************************************)
None == 0     \* category_id before it is resolved (ids start at 1)

JpgName(image_id) == <<image_id, ".jpg">>

\* Mutant of Skipped: skips only when both files are missing.
SkippedWhenBothMissing(v, image_id) == image_id \notin v.jpg /\ image_id \notin v.xml

\* Line 28: the id is skipped unless both of its files exist.
Skipped(v, image_id) == image_id \notin v.jpg \/ image_id \notin v.xml

\* Lines 46-70: one annotation per <object>, ids running on across images.
RECURSIVE ScanObjects(_, _, _)
ScanObjects(objects, image, anns) ==
    IF objects = <<>> THEN anns
    ELSE LET obj == Head(objects)
             w == obj.bndbox.xmax - obj.bndbox.xmin
             h == obj.bndbox.ymax - obj.bndbox.ymin
             annotation ==
                 [id |-> Len(anns) + 1,
                  image_id |-> image.id,
                  category_id |-> None,
                  bbox |-> <<obj.bndbox.xmin, obj.bndbox.ymin, w, h>>,
                  area |-> w * h,
                  iscrowd |-> 0,
                  difficult |-> obj.difficult,
                  category_name |-> obj.name]
         IN  ScanObjects(Tail(objects), image, Append(anns, annotation))

\* Lines 24-70: the loop over the ids of the index file.
RECURSIVE ScanImages(_, _, _)
ScanImages(v, ids, acc) ==
    IF ids = <<>> THEN acc
    ELSE IF Skipped(v, Head(ids)) THEN ScanImages(v, Tail(ids), acc)
    ELSE LET root == XmlOf(Head(ids))
             image == [id |-> Len(acc.images) + 1,
                       file_name |-> JpgName(Head(ids)),
                       width |-> root.width,
                       height |-> root.height]
             names == {root.objects[i].name : i \in 1..Len(root.objects)}
         IN  ScanImages(v, Tail(ids),
                 [images |-> Append(acc.images, image),
                  annotations |-> ScanObjects(root.objects, image, acc.annotations),
                  category_names |-> acc.category_names \cup names])

\* Python compares strings by code point; for lower-case letters that is the
\* alphabet's order.
Alphabet == <<"a", "b", "c", "d", "e", "f", "g", "h", "i", "j", "k", "l", "m",
              "n", "o", "p", "q", "r", "s", "t", "u", "v", "w", "x", "y", "z">>
Ord(c) == CHOOSE i \in 1..Len(Alphabet) : Alphabet[i] = c

RECURSIVE StrLess(_, _)
StrLess(a, b) ==
    IF b = <<>> THEN FALSE
    ELSE IF a = <<>> THEN TRUE
    ELSE IF Head(a) = Head(b) THEN StrLess(Tail(a), Tail(b))
    ELSE Ord(Head(a)) < Ord(Head(b))

\* Mutant of SortedNames: the names in descending order.
RECURSIVE SortedNamesDescending(_)
SortedNamesDescending(S) ==
    IF S = {} THEN <<>>
    ELSE LET last == CHOOSE x \in S : \A y \in S \ {x} : StrLess(y, x)
         IN  <<last>> \o SortedNamesDescending(S \ {last})

\* sorted(list(category_names))
RECURSIVE SortedNames(_)
SortedNames(S) ==
    IF S = {} THEN <<>>
    ELSE LET first == CHOOSE x \in S : \A y \in S \ {x} : StrLess(x, y)
         IN  <<first>> \o SortedNames(S \ {first})

\* Lines 73-80: category ids count up from 1 in the sorted order.
BuildCategories(names) ==
    LET sorted == SortedNames(names)
    IN  [i \in 1..Len(sorted) |->
            [id |-> i, name |-> sorted[i], supercategory |-> "none"]]

\* Lines 83-88: the id of the first category of that name replaces the
\* temporary category_name field.
ResolveAnnotation(ann, cats) ==
    LET k == CHOOSE i \in 1..Len(cats) :
                 /\ cats[i].name = ann.category_name
                 /\ \A j \in 1..(i - 1) : cats[j].name # ann.category_name
        resolved == [ann EXCEPT !.category_id = cats[k].id]
    IN  [f \in DOMAIN resolved \ {"category_name"} |-> resolved[f]]

ResolveAll(anns, cats) == [i \in 1..Len(anns) |-> ResolveAnnotation(anns[i], cats)]

ImagesDir(split) == <<split, "2024">>
AnnotationsDir == <<"annotations">>

(***************************************************************************)
(* voc_to_coco as a state machine (SpecConvert): for each split, open the  *)
(* index, scan, build the categories, resolve, make the directories, copy, *)
(* write.                                                                  *)
(***************************************************************************)
UiIdle ==
    /\ image_info = <<>>
    /\ current_index = 0
    /\ classifications = <<>>
    /\ sparse_check = FALSE
    /\ dense_check = FALSE
    /\ last_op = "init"
    /\ import_file = NoFile

InitConvert ==
    /\ voc \in [index : [train : TrainIndexes, val : ValIndexes],
                jpg : SUBSET ImageIds,
                xml : SUBSET ImageIds]
    /\ pc = "open"
    /\ set_name = sets[1]
    /\ image_ids = <<>>
    /\ images = <<>>
    /\ annotations = <<>>
    /\ categories = <<>>
    /\ category_names = {}
    /\ out_dirs = {}
    /\ copied = {}
    /\ json_out = <<>>
    /\ UiIdle
    /\ RtIdle

\* Lines 10-23: the split's lists start empty and its index file is read; a
\* missing file raises out of voc_to_coco.
OpenIndex ==
    /\ pc = "open"
    /\ images' = <<>>
    /\ annotations' = <<>>
    /\ categories' = <<>>
    /\ category_names' = {}
    /\ IF voc.index[set_name].exists
       THEN /\ image_ids' = voc.index[set_name].lines
            /\ pc' = "scan"
       ELSE /\ image_ids' = image_ids
            /\ pc' = "aborted"
    /\ UNCHANGED <<voc, set_name, out_dirs, copied, json_out, uiVars, rtVars>>

\* Lines 24-70.
Scan ==
    /\ pc = "scan"
    /\ LET r == ScanImages(voc, image_ids,
                           [images |-> <<>>, annotations |-> <<>>,
                            category_names |-> {}])
       IN  /\ images' = r.images
           /\ annotations' = r.annotations
           /\ category_names' = r.category_names
    /\ pc' = "categories"
    /\ UNCHANGED <<voc, set_name, image_ids, categories, out_dirs, copied,
                   json_out, uiVars, rtVars>>

\* Lines 72-80.
Categories ==
    /\ pc = "categories"
    /\ categories' = BuildCategories(category_names)
    /\ pc' = "resolve"
    /\ UNCHANGED <<voc, set_name, image_ids, images, annotations, category_names,
                   out_dirs, copied, json_out, uiVars, rtVars>>

\* Lines 82-88.
Resolve ==
    /\ pc = "resolve"
    /\ annotations' = ResolveAll(annotations, categories)
    /\ pc' = "makedirs"
    /\ UNCHANGED <<voc, set_name, image_ids, images, categories, category_names,
                   out_dirs, copied, json_out, uiVars, rtVars>>

\* Lines 90-93.
MakeDirs ==
    /\ pc = "makedirs"
    /\ out_dirs' = out_dirs \cup {ImagesDir(set_name), AnnotationsDir}
    /\ pc' = "copy"
    /\ UNCHANGED <<voc, set_name, image_ids, images, annotations, categories,
                   category_names, copied, json_out, uiVars, rtVars>>

\* Lines 95-97.
CopyImages ==
    /\ pc = "copy"
    /\ copied' = copied \cup {<<set_name, images[i].file_name>> : i \in 1..Len(images)}
    /\ pc' = "write"
    /\ UNCHANGED <<voc, set_name, image_ids, images, annotations, categories,
                   category_names, out_dirs, json_out, uiVars, rtVars>>

\* Lines 99-106, and the step of the loop over the splits (line 9).
WriteJson ==
    /\ pc = "write"
    /\ json_out' = (set_name :> [images |-> images,
                                 annotations |-> annotations,
                                 categories |-> categories]) @@ json_out
    /\ IF set_name = sets[1]
       THEN /\ set_name' = sets[2]
            /\ pc' = "open"
       ELSE /\ set_name' = set_name
            /\ pc' = "done"
    /\ UNCHANGED <<voc, image_ids, images, annotations, categories, category_names,
                   out_dirs, copied, uiVars, rtVars>>

NextConvert ==
    \/ OpenIndex
    \/ Scan
    \/ Categories
    \/ Resolve
    \/ MakeDirs
    \/ CopyImages
    \/ WriteJson

SpecConvert == InitConvert /\ [][NextConvert]_vars

(***************************************************************************)
(* Claims about the converter (checked under SpecConvert).                 *)
(***************************************************************************)
Written == DOMAIN json_out

\* The ids of a split's index file that have both files, in file order.
UsableIds(split) ==
    SelectSeq(voc.index[split].lines,
              LAMBDA id : id \in voc.jpg /\ id \in voc.xml)

\* The class names of the objects of those ids, in reading order.
RECURSIVE ClassNamesOf(_)
ClassNamesOf(ids) ==
    IF ids = <<>> THEN <<>>
    ELSE LET objects == XmlOf(Head(ids)).objects
         IN  [i \in 1..Len(objects) |-> objects[i].name] \o ClassNamesOf(Tail(ids))

Range(q) == {q[i] : i \in 1..Len(q)}

\* C5: in every written document the categories are the distinct class names
\* of the split's objects, in strictly ascending lexicographic order, with
\* ids 1..N; every annotation carries the id of the category named as its
\* object, no null category_id and no category_name field.
C5_CategoriesResolved ==
    \A split \in Written :
        LET doc == json_out[split]
            names == ClassNamesOf(UsableIds(split))
            cats == doc.categories
        IN  /\ {cats[i].name : i \in 1..Len(cats)} = Range(names)
            /\ \A i \in 1..Len(cats) : cats[i].id = i
            /\ \A i, j \in 1..Len(cats) : i < j => StrLess(cats[i].name, cats[j].name)
            /\ Len(doc.annotations) = Len(names)
            /\ \A k \in 1..Len(names) :
                   LET ann == doc.annotations[k]
                   IN  /\ "category_name" \notin DOMAIN ann
                       /\ ann.category_id # None
                       /\ \E i \in 1..Len(cats) :
                              cats[i].id = ann.category_id /\ cats[i].name = names[k]

\* A document was written for a split whose objects repeat a class name and
\* meet "tree" before "bush": two categories at least, "bush" first.
C5_Witness ==
    \E split \in Written :
        /\ Len(json_out[split].categories) >= 2
        /\ Len(json_out[split].annotations) >= 3
        /\ ClassNamesOf(UsableIds(split))[1] = Tree
        /\ json_out[split].categories[1].name = Bush

\* C6: in every written document the images are the usable ids of the index
\* file, in file order, with ids 1..k; every annotation's image_id is one of
\* them; exactly their files were copied; an id with a file missing has no
\* image record and no copied file.
C6_SkippedIdsLeaveNoTrace ==
    \A split \in Written :
        LET doc == json_out[split]
            usable == UsableIds(split)
        IN  /\ Len(doc.images) = Len(usable)
            /\ \A i \in 1..Len(usable) :
                   /\ doc.images[i].id = i
                   /\ doc.images[i].file_name = JpgName(usable[i])
            /\ \A k \in 1..Len(doc.annotations) :
                   doc.annotations[k].image_id \in 1..Len(doc.images)
            /\ {c[2] : c \in {x \in copied : x[1] = split}}
                   = {JpgName(usable[i]) : i \in 1..Len(usable)}
            /\ \A id \in Range(voc.index[split].lines) :
                   (id \notin voc.jpg \/ id \notin voc.xml) =>
                       /\ \A i \in 1..Len(doc.images) :
                              doc.images[i].file_name # JpgName(id)
                       /\ <<split, JpgName(id)>> \notin copied

\* A split was written whose index lists an unusable id before a usable one.
C6_Witness ==
    \E split \in Written :
        LET lines == voc.index[split].lines
        IN  /\ Len(lines) >= 2
            /\ lines[1] \notin voc.xml
            /\ lines[1] \in voc.jpg
            /\ Len(json_out[split].images) >= 1
            /\ Len(json_out[split].annotations) >= 1

\* C7 (as claimed): when the converter aborts on a missing index file, no
\* output directory, copied image or JSON document exists, for any split.
C7_AbortBeforeAnyWork ==
    pc = "aborted" => out_dirs = {} /\ copied = {} /\ Written = {}

====
